---- MODULE Spec2Model ----
(***************************************************************************)
(* Credit-decision service of ventture-credito-streamlit.                  *)
(*                                                                         *)
(* Three variants of the service exist in the repository:                  *)
(*   "v3"  credito_service.py            (current, /predict)               *)
(*   "s2"  app/Old/credito_service2.py   (Gemini + model)                  *)
(*   "s1"  app/Old/credito_service.py    (first version, uses preprocess)  *)
(* Each one keeps the history in the CSV file historico_simulacoes.csv.    *)
(*                                                                         *)
(* Spec      one request at a time: every handler is one atomic action.    *)
(* SpecConc  two requests in flight: the append is split into its read of  *)
(*           the whole log and its write of the whole log.                 *)
(* SpecMsg   the message for the client (LLM or template).                 *)
(* SpecOferta the offer engine of main4.py (motor_de_decisao) behind        *)
(*           /decisao_ml/melhor_oferta.                                    *)
(* SpecFluxo the flow /proposta_completa/gerar of main4.py.                *)
(* SpecFeatures  criar_features_cliente on its numeric inputs.             *)
(*                                                                         *)
(* Probabilities are integers in units of 1/Escala (1e-5); the stored      *)
(* prob_aprovacao is in units of 1e-4 (round(prob, 4)).                    *)
(* The label "Não" of the source is written "Nao".                         *)
(***************************************************************************)
EXTENDS Integers, Sequences, FiniteSets, TLC

VARIABLES
    variante,   \* which service file is deployed: "v3", "s2" or "s1"
    arquivo,    \* historico_simulacoes.csv: [estado, linhas]
    resp,       \* the last request handled and what it returned (Spec)
    pc,         \* per thread: where its prever_credito request stands (SpecConc)
    loc,        \* per thread: the locals of its request (SpecConc)
    client,     \* the Gemini client of the process: TRUE configured, FALSE None
    catalogo,   \* main4.py PRODUTOS_OFERECIDOS (SpecOferta, SpecFluxo)
    clientes_db, \* main4.py CLIENTES_DB: id_cliente -> ClienteBase
    oferta,     \* the request to the offer engine and its result
    msg,        \* the last message composed and how (SpecMsg)
    feat        \* a call of criar_features_cliente and its result (SpecFeatures)

vars == <<variante, arquivo, resp, pc, loc, client, catalogo, clientes_db,
         oferta, msg, feat>>

\* what the credit service's history handlers leave alone
varsOferta == <<client, catalogo, clientes_db, oferta, msg, feat>>

\* what the offer engine and the message composition leave alone
varsHistorico == <<arquivo, resp, pc, loc, feat>>

----------------------------------------------------------------------------
(* Bounds and input domains *)

\* The history holds at most MaxLog rows (requests are refused beyond it).
MaxLog == 3

Escala == 10^5

\* Outputs of modelo.predict_proba: just below 0.5 (rounds to 0.5000),
\* exactly 0.5, and above.
ProbSet == {49996, 50000, 62000}

Variantes == {"v3", "s2", "s1"}

LiquidezValidas == {"baixa", "media", "alta"}

\* liquidez is a free string of the request: two values outside the enum,
\* one of them ("NA") a string pandas.read_csv takes for a missing value.
LiquidezEntrada == LiquidezValidas \cup {"outra", "NA"}

\* A request: the fields the handlers branch on, and whether the external
\* calls (scaler/model, eli5) raise during it.
Pedidos ==
    [liquidez : LiquidezEntrada, prob : ProbSet,
     falha_modelo : BOOLEAN, falha_explicacao : BOOLEAN]

Threads == {"t1", "t2"}

\* The requests of the concurrent specification: the explanation succeeds
\* and the probability is fixed (neither touches the file).
PedidosConc ==
    {p \in Pedidos : p.prob = 62000 /\ ~p.falha_explicacao}

----------------------------------------------------------------------------
(* The CSV file and pandas' reading and writing of it *)

\* The float NaN of a parsed cell, and None (JSON null).
NAN == "<nan>"
INF == "<inf>"
NEGINF == "<-inf>"
NONE == "<None>"

\* Strings read_csv takes for a missing value (keep_default_na).
NaStrings == {"", "NA"}

ArquivoAusente == [estado |-> "ausente", linhas |-> <<>>]
ArquivoCorrompido == [estado |-> "corrompido", linhas |-> <<>>]

NenhumRegistro == [liquidez |-> "", prob_aprovacao |-> 0, aprovado |-> ""]

\* os.path.exists(ARQUIVO_HISTORICO)
existe(arq) == arq.estado # "ausente"

\* One cell as to_csv writes it: NaN becomes the empty field.
escrever_celula(v) == IF v = NAN THEN "" ELSE v

\* One cell as read_csv parses it: a missing-value string becomes NaN.
ler_celula(v) == IF v \in NaStrings THEN NAN ELSE v

\* DataFrame.to_csv(ARQUIVO_HISTORICO, index=False): the whole file is rewritten.
to_csv(df) ==
    [estado |-> "legivel",
     linhas |-> [i \in 1..Len(df) |->
                    [df[i] EXCEPT !.liquidez = escrever_celula(@)]]]

\* pd.read_csv(ARQUIVO_HISTORICO): raises on a file it cannot parse.
read_csv(arq) ==
    IF arq.estado = "legivel"
    THEN [ok |-> TRUE,
          linhas |-> [i \in 1..Len(arq.linhas) |->
                        [arq.linhas[i] EXCEPT !.liquidez = ler_celula(@)]]]
    ELSE [ok |-> FALSE, linhas |-> <<>>]

----------------------------------------------------------------------------
(* Feature derivation *)

\* the scores of "media" and "alta" exchanged
criar_features_cliente_trocado(liquidez) ==
    LET mapa == [baixa |-> 1, media |-> 3, alta |-> 2] IN
    IF liquidez \in DOMAIN mapa
    THEN [ok |-> TRUE, liquidez_score |-> mapa[liquidez]]
    ELSE [ok |-> FALSE, liquidez_score |-> 0]

\* credito_service.py: {"baixa": 1, "media": 2, "alta": 3}[liquidez] (KeyError)
criar_features_cliente(liquidez) ==
    LET mapa == [baixa |-> 1, media |-> 2, alta |-> 3] IN
    IF liquidez \in DOMAIN mapa
    THEN [ok |-> TRUE, liquidez_score |-> mapa[liquidez]]
    ELSE [ok |-> FALSE, liquidez_score |-> 0]

\* credito_service2.py: {...}.get(liquidez, 2)
criar_features_cliente_s2(liquidez) ==
    LET mapa == [baixa |-> 1, media |-> 2, alta |-> 3] IN
    [ok |-> TRUE,
     liquidez_score |-> IF liquidez \in DOMAIN mapa THEN mapa[liquidez] ELSE 2]

\* src/preprocess.py, imported by Old/credito_service.py (KeyError)
criar_features_cliente_pre(liquidez) ==
    LET mapa == [baixa |-> 1, media |-> 2, alta |-> 3] IN
    IF liquidez \in DOMAIN mapa
    THEN [ok |-> TRUE, liquidez_score |-> mapa[liquidez]]
    ELSE [ok |-> FALSE, liquidez_score |-> 0]

----------------------------------------------------------------------------
(* Threshold decision *)

\* 0.5
Limiar == Escala \div 2

\* the threshold taken as open (prob > 0.5)
aprovado_gt(prob) == prob > Limiar

\* credito_service.py: aprovado = int(prob >= 0.5)
aprovado_de(prob) == prob >= Limiar

\* credito_service2.py: aprovado = True if prob >= 0.5 else False
aprovado_de_s2(prob) == prob >= Limiar

\* Old/credito_service.py: aprovado = "Sim" if prob >= 0.5 else "Não"
aprovado_de_s1(prob) == prob >= Limiar

\* "Sim" if aprovado else "Não"
rotulo(aprovado) == IF aprovado THEN "Sim" ELSE "Nao"

\* round(prob, 4), in units of 1e-4 (no element of ProbSet is a tie)
round4(prob) == (prob + 5) \div 10

\* the row written to the history
novo_registro(req, aprovado) ==
    [liquidez |-> req.liquidez,
     prob_aprovacao |-> round4(req.prob),
     aprovado |-> rotulo(aprovado)]

----------------------------------------------------------------------------
(* What a handler hands back *)

RespInicial ==
    [op |-> "init", tipo |-> "", etapa |-> "", liquidez |-> "",
     prob_modelo |-> 0, aprovado |-> "", registro |-> NenhumRegistro,
     explicacao |-> FALSE, dados |-> <<>>, levantou |-> "", amostra |-> ""]

\* A request that ended at stage etapa without a decision: tipo "erro" is the
\* payload {"error": ..., "detail": ...}, tipo "excecao" an exception that
\* leaves the handler (HTTP 500).
SemDecisao(tipo, etapa) ==
    [tipo |-> tipo, etapa |-> etapa, prob_modelo |-> 0, aprovado |-> "",
     registro |-> NenhumRegistro, explicacao |-> FALSE]

Decisao(req, aprovado, explicacao) ==
    [tipo |-> "ok", etapa |-> "historico", prob_modelo |-> req.prob,
     aprovado |-> rotulo(aprovado),
     registro |-> novo_registro(req, aprovado), explicacao |-> explicacao]

----------------------------------------------------------------------------
(* prever_credito up to the row to append *)

\* a scoring failure answered with a default denial
prever_credito_decisao_padrao(req) ==
    IF ~criar_features_cliente(req.liquidez).ok THEN SemDecisao("erro", "features")
    ELSE IF req.falha_modelo THEN Decisao([req EXCEPT !.prob = 0], FALSE, FALSE)
    ELSE IF req.falha_explicacao THEN SemDecisao("erro", "explicacao")
    ELSE Decisao(req, aprovado_de(req.prob), TRUE)

\* credito_service.py: everything runs inside one try; any exception becomes
\* the error payload.  The message step (gerar_mensagem_aprovacao/negacao)
\* catches its own exceptions and does not touch the file or the verdict.
prever_credito_decisao(req) ==
    IF ~criar_features_cliente(req.liquidez).ok THEN SemDecisao("erro", "features")
    ELSE IF req.falha_modelo THEN SemDecisao("erro", "modelo")
    ELSE IF req.falha_explicacao THEN SemDecisao("erro", "explicacao")
    ELSE Decisao(req, aprovado_de(req.prob), TRUE)

\* credito_service2.py: the explanation has its own try (explicacao_html = None).
prever_credito_decisao_s2(req) ==
    IF ~criar_features_cliente_s2(req.liquidez).ok THEN SemDecisao("erro", "features")
    ELSE IF req.falha_modelo THEN SemDecisao("erro", "modelo")
    ELSE Decisao(req, aprovado_de_s2(req.prob), ~req.falha_explicacao)

\* Old/credito_service.py: no try at all.
prever_credito_decisao_s1(req) ==
    IF ~criar_features_cliente_pre(req.liquidez).ok THEN SemDecisao("excecao", "features")
    ELSE IF req.falha_modelo THEN SemDecisao("excecao", "modelo")
    ELSE IF req.falha_explicacao THEN SemDecisao("excecao", "explicacao")
    ELSE Decisao(req, aprovado_de_s1(req.prob), TRUE)

----------------------------------------------------------------------------
(* The append: read the whole log, concatenate, write the whole log *)

\* credito_service.py: if os.path.exists(...): historico_antigo = pd.read_csv(...)
ler_antigo(arq) ==
    IF existe(arq) THEN read_csv(arq) ELSE [ok |-> TRUE, linhas |-> <<>>]

\* credito_service2.py salvar_historico: a corrupted CSV is replaced by the new row
ler_antigo_s2(arq) ==
    IF existe(arq)
    THEN LET lido == read_csv(arq) IN
         IF lido.ok THEN lido ELSE [ok |-> TRUE, linhas |-> <<>>]
    ELSE [ok |-> TRUE, linhas |-> <<>>]

\* Old/credito_service.py salvar_historico
ler_antigo_s1(arq) ==
    IF existe(arq) THEN read_csv(arq) ELSE [ok |-> TRUE, linhas |-> <<>>]

\* pd.concat([historico_antigo, historico], ignore_index=True); to_csv(...)
concat_e_grava(antigo, registro) == to_csv(antigo \o <<registro>>)

\* an append that reports success without writing the file
gravar_sem_escrita(arq, registro) == [ok |-> TRUE, arq |-> arq]

\* credito_service.py lines 219-224
gravar_historico(arq, registro) ==
    LET a == ler_antigo(arq) IN
    IF a.ok THEN [ok |-> TRUE, arq |-> concat_e_grava(a.linhas, registro)]
    ELSE [ok |-> FALSE, arq |-> arq]

\* credito_service2.py
salvar_historico_s2(arq, registro) ==
    LET a == ler_antigo_s2(arq) IN
    IF a.ok THEN [ok |-> TRUE, arq |-> concat_e_grava(a.linhas, registro)]
    ELSE [ok |-> FALSE, arq |-> arq]

\* Old/credito_service.py
salvar_historico_s1(arq, registro) ==
    LET a == ler_antigo_s1(arq) IN
    IF a.ok THEN [ok |-> TRUE, arq |-> concat_e_grava(a.linhas, registro)]
    ELSE [ok |-> FALSE, arq |-> arq]

----------------------------------------------------------------------------
(* prever_credito, whole *)

Concluida(d) == [d EXCEPT !.etapa = "fim"]

\* credito_service.py /predict
prever_credito(arq, req) ==
    LET d == prever_credito_decisao(req) IN
    IF d.tipo # "ok" THEN [resp |-> d, arq |-> arq]
    ELSE LET g == gravar_historico(arq, d.registro) IN
         IF g.ok THEN [resp |-> Concluida(d), arq |-> g.arq]
         ELSE [resp |-> SemDecisao("erro", "historico"), arq |-> arq]

\* credito_service2.py /prever_credito/
prever_credito_s2(arq, req) ==
    LET d == prever_credito_decisao_s2(req) IN
    IF d.tipo # "ok" THEN [resp |-> d, arq |-> arq]
    ELSE LET g == salvar_historico_s2(arq, d.registro) IN
         IF g.ok THEN [resp |-> Concluida(d), arq |-> g.arq]
         ELSE [resp |-> SemDecisao("erro", "historico"), arq |-> arq]

\* Old/credito_service.py /prever_credito/
prever_credito_s1(arq, req) ==
    LET d == prever_credito_decisao_s1(req) IN
    IF d.tipo # "ok" THEN [resp |-> d, arq |-> arq]
    ELSE LET g == salvar_historico_s1(arq, d.registro) IN
         IF g.ok THEN [resp |-> Concluida(d), arq |-> g.arq]
         ELSE [resp |-> SemDecisao("excecao", "historico"), arq |-> arq]

----------------------------------------------------------------------------
(* The history read *)

\* historico.replace([np.inf, -np.inf], np.nan).fillna("")
replace_inf_fillna(v) ==
    LET semInf == IF v \in {INF, NEGINF} THEN NAN ELSE v IN
    IF semInf = NAN THEN "" ELSE semInf

\* df.replace({np.nan: None})
replace_nan_none(v) == IF v = NAN THEN NONE ELSE v

\* no normalisation: historico.to_dict(orient="records")
sem_normalizacao(v) == v

\* a history read that takes an unreadable log for an empty one
obter_historico_corrompido_vazio(arq) ==
    LET lido == read_csv(arq) IN
    IF existe(arq) /\ lido.ok
    THEN [tipo |-> "lista", dados |-> [i \in 1..Len(lido.linhas) |->
                              [lido.linhas[i] EXCEPT !.liquidez = replace_inf_fillna(@)]]]
    ELSE [tipo |-> "lista", dados |-> <<>>]

\* credito_service.py GET /historico/
obter_historico(arq) ==
    IF ~existe(arq) THEN [tipo |-> "lista", dados |-> <<>>]
    ELSE LET lido == read_csv(arq) IN
         IF lido.ok
         THEN [tipo |-> "lista", dados |-> [i \in 1..Len(lido.linhas) |->
                              [lido.linhas[i] EXCEPT !.liquidez = replace_inf_fillna(@)]]]
         ELSE [tipo |-> "erro", dados |-> <<>>]

\* credito_service2.py GET /historico/
consultar_historico_s2(arq) ==
    IF existe(arq)
    THEN LET lido == read_csv(arq) IN
         IF lido.ok
         THEN [tipo |-> "lista", dados |-> [i \in 1..Len(lido.linhas) |->
                              [lido.linhas[i] EXCEPT !.liquidez = sem_normalizacao(@)]]]
         ELSE [tipo |-> "erro", dados |-> <<>>]
    ELSE [tipo |-> "lista", dados |-> <<>>]

\* Old/credito_service.py GET /historico/
historico_s1(arq) ==
    IF existe(arq)
    THEN LET lido == read_csv(arq) IN
         IF lido.ok
         THEN [tipo |-> "lista", dados |-> [i \in 1..Len(lido.linhas) |->
                              [lido.linhas[i] EXCEPT !.liquidez = replace_nan_none(@)]]]
         ELSE [tipo |-> "erro", dados |-> <<>>]
    ELSE [tipo |-> "lista", dados |-> <<>>]

----------------------------------------------------------------------------
(* The history clear; falha_remove: os.remove raises *)

\* a clear that calls os.remove without the os.path.exists test
limpar_sem_exists(arq, falha_remove) ==
    IF existe(arq) /\ ~falha_remove
    THEN [tipo |-> "status", arq |-> ArquivoAusente]
    ELSE [tipo |-> "erro", arq |-> arq]

\* credito_service2.py POST /limpar_historico/
limpar_historico_s2(arq, falha_remove) ==
    IF existe(arq)
    THEN IF falha_remove THEN [tipo |-> "erro", arq |-> arq]
         ELSE [tipo |-> "status", arq |-> ArquivoAusente]
    ELSE [tipo |-> "status", arq |-> arq]

\* Old/credito_service.py POST /limpar_historico/
limpar_historico_s1(arq, falha_remove) ==
    IF existe(arq)
    THEN IF falha_remove THEN [tipo |-> "excecao", arq |-> arq]
         ELSE [tipo |-> "status", arq |-> ArquivoAusente]
    ELSE [tipo |-> "status", arq |-> arq]

----------------------------------------------------------------------------
(* Dispatch on the deployed variant *)

Prever(v, arq, req) ==
    CASE v = "v3" -> prever_credito(arq, req)
      [] v = "s2" -> prever_credito_s2(arq, req)
      [] v = "s1" -> prever_credito_s1(arq, req)

Historico(v, arq) ==
    CASE v = "v3" -> obter_historico(arq)
      [] v = "s2" -> consultar_historico_s2(arq)
      [] v = "s1" -> historico_s1(arq)

\* credito_service.py has no clear endpoint.
TemLimpar(v) == v \in {"s2", "s1"}

Limpar(v, arq, falha_remove) ==
    CASE v = "s2" -> limpar_historico_s2(arq, falha_remove)
      [] v = "s1" -> limpar_historico_s1(arq, falha_remove)

----------------------------------------------------------------------------
(* Spec: one request at a time *)

FeaturesDe(v, liquidez) ==
    CASE v = "v3" -> criar_features_cliente(liquidez)
      [] v = "s2" -> criar_features_cliente_s2(liquidez)
      [] v = "s1" -> criar_features_cliente_pre(liquidez)

\* The first library call of the request that raises: "features" (the
\* liquidity lookup), "modelo" (scaler.transform / predict_proba),
\* "explicacao" (PermutationImportance.fit / eli5.show_weights), "" none.
\* The scoring is reached only with features, the explanation only with a
\* probability.
PrimeiraFalha(v, req) ==
    IF ~FeaturesDe(v, req.liquidez).ok THEN "features"
    ELSE IF req.falha_modelo THEN "modelo"
    ELSE IF req.falha_explicacao THEN "explicacao"
    ELSE ""

\* the columns of the frame criar_features_cliente returns
\* (credito_service2.py 84-93), which are the model's feature names
ColunasFeatures ==
    {"renda_mensal", "idade", "valor_solicitado", "valor_bem",
     "relacao_garantia_credito", "liquidez_score", "renda_por_idade",
     "garantia_ponderada"}

\* the columns of the rows prever_credito appends (credito_service2.py 212-222)
ColunasHistorico ==
    {"data_hora", "renda", "idade", "valor_credito", "valor_bem", "liquidez",
     "prob_aprovacao", "aprovado", "mensagem_cliente"}

\* credito_service2.py 176-192: what PermutationImportance is fit on,
\* "historico" (the rows of the log) or "unica" (the request's one sample)
amostra_explicacao_s2(arq) ==
    IF ~existe(arq) THEN "unica"
    ELSE IF ~read_csv(arq).ok THEN "unica"
    ELSE IF ColunasFeatures \subseteq ColunasHistorico THEN "historico"
    ELSE "unica"

\* credito_service.py 194-196 and Old/credito_service.py fit on the one sample
amostra_explicacao(arq) == "unica"

\* What the explanation of the request was fit on; "" when the request never
\* reached the explanation.
AmostraDe(v, arq, req) ==
    IF PrimeiraFalha(v, req) \in {"features", "modelo"} THEN ""
    ELSE IF v = "s2" THEN amostra_explicacao_s2(arq)
    ELSE amostra_explicacao(arq)

\* nothing called yet (offer engine, message composition)
SemChamada == [op |-> "init"]

PcInicial == [t \in Threads |-> "idle"]
LocInicial == [t \in Threads |-> [d |-> SemDecisao("", ""), lido |-> <<>>]]

Init ==
    /\ variante \in Variantes
    /\ arquivo = ArquivoAusente
    /\ resp = RespInicial
    /\ pc = PcInicial
    /\ loc = LocInicial
    /\ client = FALSE
    /\ catalogo = <<>>
    /\ clientes_db = <<>>
    /\ oferta = SemChamada
    /\ msg = SemChamada
    /\ feat = SemChamada

PreverCredito ==
    /\ Len(arquivo.linhas) < MaxLog
    /\ \E req \in Pedidos :
          LET out == Prever(variante, arquivo, req) IN
          /\ arquivo' = out.arq
          /\ resp' = [op |-> "prever", tipo |-> out.resp.tipo,
                      etapa |-> out.resp.etapa, liquidez |-> req.liquidez,
                      prob_modelo |-> out.resp.prob_modelo,
                      aprovado |-> out.resp.aprovado,
                      registro |-> out.resp.registro,
                      explicacao |-> out.resp.explicacao, dados |-> <<>>,
                      levantou |-> PrimeiraFalha(variante, req),
                      amostra |-> AmostraDe(variante, arquivo, req)]
    /\ UNCHANGED <<variante, pc, loc>>
    /\ UNCHANGED varsOferta

ObterHistorico ==
    /\ LET out == Historico(variante, arquivo) IN
       resp' = [RespInicial EXCEPT !.op = "historico", !.tipo = out.tipo,
                                   !.dados = out.dados]
    /\ UNCHANGED <<variante, arquivo, pc, loc>>
    /\ UNCHANGED varsOferta

LimparHistorico ==
    /\ TemLimpar(variante)
    /\ \E falha_remove \in BOOLEAN :
          LET out == Limpar(variante, arquivo, falha_remove) IN
          /\ arquivo' = out.arq
          /\ resp' = [RespInicial EXCEPT !.op = "limpar", !.tipo = out.tipo]
    /\ UNCHANGED <<variante, pc, loc>>
    /\ UNCHANGED varsOferta

\* The environment damages the file (a truncated or garbled CSV).
CorromperArquivo ==
    /\ arquivo.estado = "legivel"
    /\ arquivo' = ArquivoCorrompido
    /\ resp' = [RespInicial EXCEPT !.op = "corromper"]
    /\ UNCHANGED <<variante, pc, loc>>
    /\ UNCHANGED varsOferta

Next ==
    \/ PreverCredito
    \/ ObterHistorico
    \/ LimparHistorico
    \/ CorromperArquivo

Spec == Init /\ [][Next]_vars

----------------------------------------------------------------------------
(* SpecConc: two prever_credito requests in flight.  The handlers run in     *)
(* the server's thread pool without any lock; between the read of the log    *)
(* and its write another request may run.                                    *)

DecisaoDe(v, req) ==
    CASE v = "v3" -> prever_credito_decisao(req)
      [] v = "s2" -> prever_credito_decisao_s2(req)
      [] v = "s1" -> prever_credito_decisao_s1(req)

LerAntigoDe(v, arq) ==
    CASE v = "v3" -> ler_antigo(arq)
      [] v = "s2" -> ler_antigo_s2(arq)
      [] v = "s1" -> ler_antigo_s1(arq)

\* features, scoring, explanation: thread-local
IniciarPedido(t) ==
    /\ pc[t] = "idle"
    /\ \E req \in PedidosConc :
          LET d == DecisaoDe(variante, req) IN
          /\ loc' = [loc EXCEPT ![t].d = d]
          /\ pc' = [pc EXCEPT ![t] = IF d.tipo = "ok" THEN "ler" ELSE "fim"]
    /\ UNCHANGED <<variante, arquivo, resp>>
    /\ UNCHANGED varsOferta

\* os.path.exists + pd.read_csv
LerAntigo(t) ==
    /\ pc[t] = "ler"
    /\ LET a == LerAntigoDe(variante, arquivo) IN
       IF a.ok
       THEN /\ loc' = [loc EXCEPT ![t].lido = a.linhas]
            /\ pc' = [pc EXCEPT ![t] = "escrever"]
       ELSE /\ loc' = [loc EXCEPT ![t].d =
                          SemDecisao(IF variante = "s1" THEN "excecao" ELSE "erro",
                                     "historico")]
            /\ pc' = [pc EXCEPT ![t] = "fim"]
    /\ UNCHANGED <<variante, arquivo, resp>>
    /\ UNCHANGED varsOferta

\* pd.concat + to_csv, then the response
EscreverNovo(t) ==
    /\ pc[t] = "escrever"
    /\ arquivo' = concat_e_grava(loc[t].lido, loc[t].d.registro)
    /\ loc' = [loc EXCEPT ![t].d = Concluida(@)]
    /\ pc' = [pc EXCEPT ![t] = "fim"]
    /\ UNCHANGED <<variante, resp>>
    /\ UNCHANGED varsOferta

NextConc ==
    \E t \in Threads :
        \/ IniciarPedido(t)
        \/ LerAntigo(t)
        \/ EscreverNovo(t)

SpecConc == Init /\ [][NextConc]_vars

----------------------------------------------------------------------------
(* Claims *)

DecisaoOk(r) == r.op = "prever" /\ r.tipo = "ok"

\* C1: in every variant a decision is approved ("Sim") if and only if the
\* model's probability is >= 0.5; exactly 0.5 approves.
C1_LimiarFechado ==
    DecisaoOk(resp) =>
        /\ resp.aprovado \in {"Sim", "Nao"}
        /\ (resp.aprovado = "Sim") <=> (2 * resp.prob_modelo >= Escala)
        /\ resp.registro.aprovado = resp.aprovado

C1_Witness ==
    /\ DecisaoOk(resp)
    /\ 2 * resp.prob_modelo = Escala
    /\ resp.aprovado = "Sim"

\* C2: a prever_credito call that returns a decision leaves the log one row
\* longer (a row more than the log it found, an unreadable or absent log
\* counting as empty); a call that returns an error payload, or raises,
\* leaves the file as it was.
C2_UmRegistroPorDecisao ==
    [][resp'.op = "prever" =>
          /\ resp'.tipo = "ok" =>
                /\ arquivo'.estado = "legivel"
                /\ Len(arquivo'.linhas) = Len(arquivo.linhas) + 1
          /\ resp'.tipo # "ok" => arquivo' = arquivo]_vars

C2_Witness ==
    /\ resp.op = "prever"
    /\ resp.tipo = "erro"
    /\ arquivo.estado = "legivel"
    /\ Len(arquivo.linhas) = 2

\* C3: after an append of record r to a readable or absent log whose read
\* yields s, the history read yields exactly s followed by r.
C3_AppendExato ==
    [][(DecisaoOk(resp') /\ arquivo.estado \in {"legivel", "ausente"}) =>
          Historico(variante, arquivo').dados =
              Historico(variante, arquivo).dados \o <<resp'.registro>>]_vars

\* C4: a clear that is acknowledged leaves no log, the history read then
\* returns the empty list, clearing an absent log is acknowledged and changes
\* nothing, and a second clear returns the acknowledgement and leaves the
\* state of the first.
C4_LimparIdempotente ==
    [][resp'.op = "limpar" =>
          /\ resp'.tipo = "status" =>
                /\ arquivo' = ArquivoAusente
                /\ Historico(variante, arquivo') = [tipo |-> "lista", dados |-> <<>>]
                /\ \A f \in BOOLEAN :
                      Limpar(variante, arquivo', f) =
                          [tipo |-> "status", arq |-> arquivo']
          /\ ~existe(arquivo) =>
                /\ resp'.tipo = "status"
                /\ arquivo' = arquivo]_vars

C4_Witness ==
    /\ resp.op = "limpar"
    /\ resp.tipo = "status"
    /\ arquivo = ArquivoAusente

\* C5: when the requests in flight have all returned a decision, the log
\* holds a row for each of them.
C5_NenhumRegistroPerdido ==
    (\A t \in Threads : pc[t] = "fim" /\ loc[t].d.tipo = "ok") =>
        /\ arquivo.estado = "legivel"
        /\ Len(arquivo.linhas) = Cardinality(Threads)
        /\ \A t \in Threads :
              \E i \in 1..Len(arquivo.linhas) :
                  arquivo.linhas[i] = to_csv(<<loc[t].d.registro>>).linhas[1]

\* C6: a decision that reaches the append while the log is unreadable is
\* returned as a decision, and the log then holds just the new row.
C6_CorrompidoSobrescrito ==
    [][(resp'.op = "prever" /\ resp'.etapa \in {"historico", "fim"}
            /\ arquivo.estado = "corrompido") =>
          /\ resp'.tipo = "ok"
          /\ arquivo' = to_csv(<<resp'.registro>>)]_vars

\* C7 as claimed: the history read returns the empty list when there is no
\* log and when the log is unreadable.
C7_LeituraVaziaSeCorrompido ==
    (resp.op = "historico" /\ arquivo.estado \in {"ausente", "corrompido"}) =>
        (resp.tipo = "lista" /\ resp.dados = <<>>)

\* C7 as amended: the history read returns the empty list when there is no
\* log; when the log is unreadable it returns an error payload (never an
\* exception, never a list).
C7_LeituraErroSeCorrompido ==
    resp.op = "historico" =>
        /\ arquivo.estado = "ausente" => (resp.tipo = "lista" /\ resp.dados = <<>>)
        /\ arquivo.estado = "corrompido" => resp.tipo = "erro"
        /\ arquivo.estado = "legivel" =>
              (resp.tipo = "lista" /\ Len(resp.dados) = Len(arquivo.linhas))

C7_Witness ==
    /\ resp.op = "historico"
    /\ arquivo.estado = "corrompido"
    /\ resp.tipo = "erro"

\* C8: no field of a record returned by the history read is NaN or an
\* infinity.
C8_SemNaNNaLeitura ==
    (resp.op = "historico" /\ resp.tipo = "lista") =>
        \A i \in 1..Len(resp.dados) : resp.dados[i].liquidez \notin {NAN, INF, NEGINF}

\* C9: a request whose liquidity is outside {baixa, media, alta} ends in an
\* error, never in a decision.
C9_LiquidezInvalidaFalha ==
    (resp.op = "prever" /\ resp.liquidez \notin LiquidezValidas) =>
        (resp.tipo \in {"erro", "excecao"} /\ resp.etapa = "features")

\* C10: no row of the history has a liquidity outside {baixa, media, alta}.
C10_HistoricoSoLiquidezValida ==
    \A i \in 1..Len(arquivo.linhas) : arquivo.linhas[i].liquidez \in LiquidezValidas

\* C11: a prever_credito request whose scoring call (scaler.transform or
\* predict_proba) raises ends in the error payload (in Old/credito_service.py,
\* which has no try, in the exception itself), carries no verdict and no
\* record, and leaves the history file as it was.
C11_FalhaModeloFatal ==
    [][(resp'.op = "prever" /\ resp'.levantou = "modelo") =>
          /\ resp'.tipo = (IF variante = "s1" THEN "excecao" ELSE "erro")
          /\ resp'.etapa = "modelo"
          /\ resp'.aprovado = ""
          /\ resp'.registro = NenhumRegistro
          /\ arquivo' = arquivo]_vars

C11_Witness ==
    /\ resp.op = "prever"
    /\ resp.levantou = "modelo"
    /\ resp.tipo = "erro"
    /\ resp.aprovado = ""
    /\ arquivo.estado = "legivel"
    /\ Len(arquivo.linhas) = 1

\* C12: a prever_credito request whose explanation step raises still returns
\* its decision, without the explanation, and has appended it.
C12_ExplicacaoNaoDerruba ==
    (resp.op = "prever" /\ resp.levantou = "explicacao") =>
        /\ resp.tipo = "ok"
        /\ resp.etapa = "fim"
        /\ resp.aprovado \in {"Sim", "Nao"}
        /\ ~resp.explicacao

----------------------------------------------------------------------------
(* SpecMsg: the message for the client.                                      *)
(* credito_service.py composes it with gerar_mensagem_aprovacao/negacao,     *)
(* credito_service2.py with the two generators of main4.py and a template    *)
(* of its own; Old/credito_service.py has no message.                        *)

\* client.models.generate_content(...) followed by response.text.strip():
\* "texto" a text comes back, "erro_api" the call raises APIError (network,
\* quota, key), "malformada" the response has no text (response.text is None
\* and .strip() raises AttributeError).
LlmResultados == {"texto", "erro_api", "malformada"}

ProbSetMsg == ProbSet \cup {0, 12344, 99999, Escala}

\* f"{prob:.2%}": the percentage with two decimals, in units of 0.01 %
\* (no element of ProbSetMsg is a tie)
formatar_pct(prob) == (prob + 5) \div 10

\* A text.  origem: "modelo" a template filled with the probability, "llm" the
\* text of the LLM, "erro_fixo" the fixed sentence "Erro: Não foi possível
\* gerar a mensagem ...", "" no text (None).  pcts: the percentages written
\* into the text by the code (what the LLM writes is not known).
\* chamou_llm: generate_content was called.
Texto(origem, veredito, pcts, chamou_llm) ==
    [excecao |-> "", origem |-> origem, veredito |-> veredito, pcts |-> pcts,
     chamou_llm |-> chamou_llm]

\* The call raised.
Excecao(nome, chamou_llm) ==
    [excecao |-> nome, origem |-> "", veredito |-> "", pcts |-> {},
     chamou_llm |-> chamou_llm]

\* the function was not called
NaoChamada == Texto("", "", {}, FALSE)

\* credito_service.py gerar_mensagem_aprovacao(data, prob)
gerar_mensagem_aprovacao(cl, llm, prob) ==
    IF ~cl THEN Texto("modelo", "Sim", {formatar_pct(prob)}, FALSE)
    ELSE IF llm = "texto" THEN Texto("llm", "Sim", {}, TRUE)
    ELSE Texto("erro_fixo", "Sim", {}, TRUE)

\* credito_service.py gerar_mensagem_negacao(data, prob)
gerar_mensagem_negacao(cl, llm, prob) ==
    IF ~cl THEN Texto("modelo", "Nao", {formatar_pct(prob)}, FALSE)
    ELSE IF llm = "texto" THEN Texto("llm", "Nao", {}, TRUE)
    ELSE Texto("erro_fixo", "Nao", {}, TRUE)

\* main4.py gerar_proposta_valor_com_contexto(dados).  dados_ok: dados has the
\* fields of DadosCreditoGenAI that the prompt reads (id_cliente, ...); the
\* prompt is built before the try.
gerar_proposta_valor_com_contexto(cl, dados_ok, llm) ==
    IF ~cl THEN Excecao("Exception", FALSE)
    ELSE IF ~dados_ok THEN Excecao("AttributeError", FALSE)
    ELSE IF llm = "texto" THEN Texto("llm", "Sim", {}, TRUE)
    ELSE Excecao("HTTPException", TRUE)

\* main4.py gerar_negativa_empática(id_cliente, motivo_tecnico).  args_ok: the
\* call passes both arguments (otherwise TypeError at the call).
gerar_negativa_empatica(cl, args_ok, llm) ==
    IF ~args_ok THEN Excecao("TypeError", FALSE)
    ELSE IF ~cl THEN Excecao("Exception", FALSE)
    ELSE IF llm = "texto" THEN Texto("llm", "Nao", {}, TRUE)
    ELSE Excecao("HTTPException", TRUE)

\* credito_service.py prever_credito, lines 187-190
compor_mensagem(cl, llm, prob) ==
    LET m == IF aprovado_de(prob) THEN gerar_mensagem_aprovacao(cl, llm, prob)
             ELSE gerar_mensagem_negacao(cl, llm, prob)
    IN [interna |-> NaoChamada, mensagem |-> m]

\* credito_service2.py prever_credito, lines 134-165 and 198-209.  The
\* generators are called with a SimpleNamespace of the applicant's fields
\* (no id_cliente), the denial generator with that one argument.  importado:
\* "from main4 import ..." succeeded (the names are callable).
compor_mensagem_s2(cl, importado, llm, prob) ==
    LET aprovado == aprovado_de_s2(prob)
        r == IF ~importado THEN NaoChamada
             ELSE IF aprovado THEN gerar_proposta_valor_com_contexto(cl, FALSE, llm)
             ELSE gerar_negativa_empatica(cl, FALSE, llm)
        mensagem_cliente == IF r.excecao # "" THEN NaoChamada ELSE r
    IN [interna |-> r,
        mensagem |-> IF mensagem_cliente.origem = ""
                     THEN Texto("modelo", rotulo(aprovado), {formatar_pct(prob)},
                                r.chamou_llm)
                     ELSE mensagem_cliente]

\* main4.py gerar_proposta_api (/proposta_genai/gerar)
gerar_proposta_api(cl, llm) ==
    IF ~cl THEN [http |-> 500, interna |-> NaoChamada]
    ELSE LET r == gerar_proposta_valor_com_contexto(cl, TRUE, llm) IN
         [http |-> IF r.excecao = "" THEN 200 ELSE 500, interna |-> r]

VariantesMsg == {"v3", "s2"}

InitMsg ==
    /\ variante \in VariantesMsg
    /\ client \in BOOLEAN
    /\ msg = SemChamada
    /\ feat = SemChamada
    /\ catalogo = <<>>
    /\ clientes_db = <<>>
    /\ oferta = SemChamada
    /\ arquivo = ArquivoAusente
    /\ resp = RespInicial
    /\ pc = PcInicial
    /\ loc = LocInicial

\* the message step of prever_credito; the text goes both into the response
\* and into the row of the history (novo_registro["mensagem_cliente"])
ComporMensagem ==
    /\ \E prob \in ProbSetMsg, llm \in LlmResultados, importado \in BOOLEAN :
          /\ variante = "v3" => importado
          /\ LET c == IF variante = "v3" THEN compor_mensagem(client, llm, prob)
                      ELSE compor_mensagem_s2(client, importado, llm, prob)
             IN msg' = [op |-> "compor", prob |-> prob, llm |-> llm,
                        importado |-> importado, http |-> 200,
                        interna |-> c.interna,
                        mensagem_resposta |-> c.mensagem,
                        mensagem_registro |-> c.mensagem]
    /\ UNCHANGED <<variante, client, catalogo, clientes_db, oferta>>
    /\ UNCHANGED varsHistorico

GerarPropostaApi ==
    /\ \E llm \in LlmResultados :
          LET r == gerar_proposta_api(client, llm) IN
          msg' = [op |-> "proposta_api", prob |-> 0, llm |-> llm,
                  importado |-> TRUE, http |-> r.http, interna |-> r.interna,
                  mensagem_resposta |-> IF r.http = 200 THEN r.interna ELSE NaoChamada,
                  mensagem_registro |-> NaoChamada]
    /\ UNCHANGED <<variante, client, catalogo, clientes_db, oferta>>
    /\ UNCHANGED varsHistorico

NextMsg ==
    \/ ComporMensagem
    \/ GerarPropostaApi

SpecMsg == InitMsg /\ [][NextMsg]_vars

\* C13: when the LLM is not available to a prever_credito request (no client,
\* or the call fails with an API error or a response without text), the
\* message returned and stored is the template of the verdict filled with the
\* probability as a percentage.
C13_FalhaLlmUsaModelo ==
    (msg.op = "compor" /\ (~client \/ msg.llm # "texto")) =>
        /\ msg.mensagem_resposta.origem = "modelo"
        /\ msg.mensagem_resposta.veredito = rotulo(2 * msg.prob >= Escala)
        /\ msg.mensagem_resposta.pcts = {formatar_pct(msg.prob)}
        /\ msg.mensagem_registro = msg.mensagem_resposta

\* C14: without a client every composition of a message ends in a text that
\* is the template filled with the probability; no generator raises, none
\* calls the LLM, and no error response is returned.
C14_SemClienteNuncaLevanta ==
    (msg.op \in {"compor", "proposta_api"} /\ ~client) =>
        /\ msg.interna.excecao = ""
        /\ ~msg.interna.chamou_llm
        /\ msg.http = 200
        /\ msg.mensagem_resposta.origem = "modelo"
        /\ ~msg.mensagem_resposta.chamou_llm
        /\ msg.op = "compor" =>
              msg.mensagem_resposta.pcts = {formatar_pct(msg.prob)}

----------------------------------------------------------------------------
(* The offer engine of main4.py: motor_de_decisao.                           *)
(*                                                                           *)
(* Floats are integers in thousandths: money in thousandths of a real, rates *)
(* in thousandths of a percentage point; round(x, 2) takes them to           *)
(* hundredths (centavos, 0.01 p.p.).  score, years and months are integers.  *)
(* A product is named by its position in the catalog.                        *)
(* "Imóvel Rural", "Bônus ..." of the source are written without accents.    *)

\* The catalog has at most MaxProdutos products.
MaxProdutos == 2

Milesimos == 10^3

\* requisito_garantia: the two values motor_de_decisao knows and another one
Garantias == {"Nenhuma", "Imovel Rural", "Penhor"}

\* ProdutoCredito (without id_produto and nome).  7.5 % and 8 % a year; a
\* limit of R$ 20001; a term below and one above the floor of 24 months.
ProdutoFormas ==
    [taxa_base_anual : {7500, 8000},
     prazo_max_meses : {12, 60},
     limite_max_inicial : {20001 * Milesimos},
     requisito_score_min : {503, 700},
     requisito_garantia : Garantias]

\* PRODUTOS_OFERECIDOS, in the order of produtos_simulados.json (empty when
\* the file is missing)
Catalogos == UNION {[1..n -> ProdutoFormas] : n \in 0..MaxProdutos}

\* ClienteBase as stored in CLIENTES_DB (necessidade_financiamento = 0.0):
\* a score below every requisito_score_min, equal to one, above 1000; either
\* side of the 10 years and of the R$ 200000 of the bonuses.
Clientes ==
    [score_interno_risco : {400, 503, 1200},
     tempo_relacionamento_anos : {9, 10},
     saldo_total_investimentos : {199999 * Milesimos, 200000 * Milesimos},
     possui_imovel_rural : BOOLEAN,
     necessidade_financiamento : {0}]

\* necessidade_financiamento of a request, in reais: negative, zero, below
\* 10000, and enough for 36 and for 84 months
Necessidades == {-5000, 0, 5000, 35000, 70000}

IdsConhecidos == {"C001"}
IdDesconhecido == "C999"

\* min(a, b), max(a, b)
min2(a, b) == IF b < a THEN b ELSE a
max2(a, b) == IF b > a THEN b ELSE a

\* int(x / d), x an integer and d > 0: the quotient cut toward zero
int_div(x, d) == IF x >= 0 THEN x \div d ELSE -((-x) \div d)

\* round(x, 2): thousandths to hundredths (no value of the domains is a tie)
round2(x) == (x + 5) \div 10

\* eligibility by score alone
produto_elegivel_so_score(cliente, produto) ==
    cliente.score_interno_risco >= produto.requisito_score_min

\* lines 137-139
produto_elegivel(cliente, produto) ==
    /\ cliente.score_interno_risco >= produto.requisito_score_min
    /\ \/ produto.requisito_garantia = "Nenhuma"
       \/ /\ produto.requisito_garantia = "Imovel Rural"
          /\ cliente.possui_imovel_rural

\* lines 134-140: the positions of the eligible products, in catalog order
produtos_elegiveis(cliente, produtos_catalogo) ==
    SelectSeq([i \in 1..Len(produtos_catalogo) |-> i],
              LAMBDA i : produto_elegivel(cliente, produtos_catalogo[i]))

\* the last of the products with the lowest rate
min_taxa_ultimo(produtos_catalogo, elegiveis) ==
    LET m[k \in 1..Len(elegiveis)] ==
            IF k = 1 THEN elegiveis[1]
            ELSE IF produtos_catalogo[elegiveis[k]].taxa_base_anual
                        <= produtos_catalogo[m[k - 1]].taxa_base_anual
                 THEN elegiveis[k] ELSE m[k - 1]
    IN m[Len(elegiveis)]

\* line 151: min(produtos_elegiveis, key=lambda p: p.taxa_base_anual); min
\* keeps the first item and replaces it only by a strictly smaller one
min_taxa(produtos_catalogo, elegiveis) ==
    LET m[k \in 1..Len(elegiveis)] ==
            IF k = 1 THEN elegiveis[1]
            ELSE IF produtos_catalogo[elegiveis[k]].taxa_base_anual
                        < produtos_catalogo[m[k - 1]].taxa_base_anual
                 THEN elegiveis[k] ELSE m[k - 1]
    IN m[Len(elegiveis)]

\* the limit without the floor at zero
limite_sem_piso(cliente, melhor_produto) ==
    LET limite_ajustado ==
            (melhor_produto.limite_max_inicial \div 1000)
                * cliente.score_interno_risco
    IN min2(min2(cliente.necessidade_financiamento * ((105 * Milesimos) \div 100),
                 melhor_produto.limite_max_inicial),
            limite_ajustado)

\* lines 155-164, in thousandths: limite_max_inicial * (score / 1000.0) and
\* necessidade * 1.05 (the limits of the domains are whole reais, the needs
\* are given in reais; TLC's integers have 32 bits, hence the order of the
\* operations)
limite_aprovado(cliente, melhor_produto) ==
    LET limite_ajustado ==
            (melhor_produto.limite_max_inicial \div 1000)
                * cliente.score_interno_risco
    IN max2(0,
            min2(min2(cliente.necessidade_financiamento * ((105 * Milesimos) \div 100),
                      melhor_produto.limite_max_inicial),
                 limite_ajustado))

\* the bonuses given only above 10 years and above R$ 200000
taxa_final_gt(cliente, melhor_produto) ==
    melhor_produto.taxa_base_anual
        - (IF cliente.tempo_relacionamento_anos > 10 THEN 500 ELSE 0)
        - (IF cliente.saldo_total_investimentos > 200000 * Milesimos
           THEN 250 ELSE 0)

\* lines 167-176: taxa_final, in thousandths of a point
taxa_final(cliente, melhor_produto) ==
    melhor_produto.taxa_base_anual
        - (IF cliente.tempo_relacionamento_anos >= 10 THEN 500 ELSE 0)
        - (IF cliente.saldo_total_investimentos >= 200000 * Milesimos
           THEN 250 ELSE 0)

\* lines 168-176: motivos; each entry with the rate it names, in hundredths
\* of a point (the base entry prints taxa_final before any bonus, "%.2f")
motivos(cliente, melhor_produto) ==
    <<[motivo |-> "Produto base", pp |-> round2(melhor_produto.taxa_base_anual)]>>
    \o (IF cliente.tempo_relacionamento_anos >= 10
        THEN <<[motivo |-> "Bonus Fidelidade", pp |-> -50]>> ELSE <<>>)
    \o (IF cliente.saldo_total_investimentos >= 200000 * Milesimos
        THEN <<[motivo |-> "Bonus Investimento", pp |-> -25]>> ELSE <<>>)

\* the term without the floor of 24 months
prazo_sem_piso(cliente, melhor_produto) ==
    min2(int_div(cliente.necessidade_financiamento, 10000) * 12,
         melhor_produto.prazo_max_meses)

\* lines 179-180
prazo_final(cliente, melhor_produto) ==
    max2(24,
         min2(int_div(cliente.necessidade_financiamento, 10000) * 12,
              melhor_produto.prazo_max_meses))

\* OfertaGerada(status="NEGADO", ...), lines 143-148
OfertaNegada ==
    [status |-> "NEGADO", produto_ofertado |-> 0, taxa_final_anual |-> 0,
     limite_aprovado |-> 0, prazo_meses |-> 0,
     motivo_recomendacao |->
         <<[motivo |-> "Baixo Score ou falta de garantias exigidas.", pp |-> 0]>>]

\* no OfertaGerada (the request ended before or outside motor_de_decisao)
SemOferta ==
    [status |-> "", produto_ofertado |-> 0, taxa_final_anual |-> 0,
     limite_aprovado |-> 0, prazo_meses |-> 0, motivo_recomendacao |-> <<>>]

\* lines 129-190
motor_de_decisao(cliente, produtos_catalogo) ==
    LET elegiveis == produtos_elegiveis(cliente, produtos_catalogo) IN
    IF elegiveis = <<>> THEN OfertaNegada
    ELSE LET melhor == min_taxa(produtos_catalogo, elegiveis)
             melhor_produto == produtos_catalogo[melhor]
         IN [status |-> "APROVADO",
             produto_ofertado |-> melhor,
             taxa_final_anual |-> round2(taxa_final(cliente, melhor_produto)),
             limite_aprovado |-> round2(limite_aprovado(cliente, melhor_produto)),
             prazo_meses |-> prazo_final(cliente, melhor_produto),
             motivo_recomendacao |-> motivos(cliente, melhor_produto)]

----------------------------------------------------------------------------
(* SpecOferta: one request to /decisao_ml/melhor_oferta.  The catalog, the   *)
(* client base and the request are drawn at the start; the handler answers   *)
(* the request.                                                              *)

\* CLIENTES_DB[id].model_copy(update={'necessidade_financiamento': ...}):
\* a new record, the stored one is not written
model_copy(cliente, necessidade) ==
    [cliente EXCEPT !.necessidade_financiamento = necessidade]

\* the stored record written with the request's value
atualizado_no_lugar(cliente, necessidade) ==
    [cliente EXCEPT !.necessidade_financiamento = necessidade]

\* the record of CLIENTES_DB after model_copy was called on it
armazenado_apos_model_copy(cliente, necessidade) == cliente

\* CLIENTES_DB after a handler's model_copy on the record of id_cliente
db_apos(db, id_cliente, necessidade) ==
    [db EXCEPT ![id_cliente] = armazenado_apos_model_copy(@, necessidade)]

\* lines 379-395
decidir_melhor_oferta_api(db, produtos, id_cliente, necessidade) ==
    IF id_cliente \notin DOMAIN db
    THEN [http |-> 404, oferta |-> SemOferta, db |-> db]
    ELSE LET cliente_base == model_copy(db[id_cliente], necessidade) IN
         [http |-> 200, oferta |-> motor_de_decisao(cliente_base, produtos),
          db |-> db_apos(db, id_cliente, necessidade)]

\* a request that waits for its handler
Pedido(id_cliente, necessidade, llm) ==
    [op |-> "pedido", id_cliente |-> id_cliente, necessidade |-> necessidade,
     llm |-> llm, http |-> 0, resultado |-> SemOferta, texto |-> ""]

InitOferta ==
    /\ catalogo \in Catalogos
    /\ clientes_db \in [IdsConhecidos -> Clientes]
    /\ client = FALSE
    /\ \E id \in IdsConhecidos, necessidade \in Necessidades :
          oferta = Pedido(id, necessidade, "texto")
    /\ variante = "v3"
    /\ msg = SemChamada
    /\ feat = SemChamada
    /\ arquivo = ArquivoAusente
    /\ resp = RespInicial
    /\ pc = PcInicial
    /\ loc = LocInicial

DecidirMelhorOferta ==
    /\ oferta.op = "pedido"
    /\ LET r == decidir_melhor_oferta_api(clientes_db, catalogo,
                                          oferta.id_cliente, oferta.necessidade)
       IN /\ oferta' = [oferta EXCEPT !.op = "decidir", !.http = r.http,
                                      !.resultado = r.oferta]
          /\ clientes_db' = r.db
    /\ UNCHANGED <<variante, client, catalogo, msg>>
    /\ UNCHANGED varsHistorico

NextOferta == DecidirMelhorOferta

SpecOferta == InitOferta /\ [][NextOferta]_vars

\* the client of the request as motor_de_decisao receives it
ClienteDoPedido ==
    [clientes_db[oferta.id_cliente] EXCEPT
        !.necessidade_financiamento = oferta.necessidade]

\* the request was answered with an OfertaGerada
Decidido == oferta.op = "decidir" /\ oferta.http = 200

Aprovado == Decidido /\ oferta.resultado.status = "APROVADO"

\* the product of the offer
ProdutoOfertado == catalogo[oferta.resultado.produto_ofertado]

\* eligibility as the claim states it
Elegivel(c, p) ==
    /\ c.score_interno_risco >= p.requisito_score_min
    /\ \/ p.requisito_garantia = "Nenhuma"
       \/ (p.requisito_garantia = "Imovel Rural" /\ c.possui_imovel_rural)

\* C16: the offer is NEGADO exactly when no product of the catalog is
\* eligible for the client, and APROVADO otherwise.
C16_NegadoSseNenhumElegivel ==
    Decidido =>
        /\ oferta.resultado.status \in {"NEGADO", "APROVADO"}
        /\ (oferta.resultado.status = "NEGADO") <=>
              ~(\E i \in 1..Len(catalogo) : Elegivel(ClienteDoPedido, catalogo[i]))

\* a client with the rural property and a score above every minimum is
\* refused by a catalog whose only product asks for another guarantee
C16_Witness ==
    /\ Decidido
    /\ oferta.resultado.status = "NEGADO"
    /\ Len(catalogo) = 1
    /\ catalogo[1].requisito_garantia = "Penhor"
    /\ ClienteDoPedido.possui_imovel_rural
    /\ ClienteDoPedido.score_interno_risco >= catalogo[1].requisito_score_min

\* C17: the product offered is eligible, no eligible product has a lower
\* base rate, and none with the same rate comes earlier in the catalog.
C17_MenorTaxaPrimeiro ==
    Aprovado =>
        LET k == oferta.resultado.produto_ofertado IN
        /\ k \in 1..Len(catalogo)
        /\ Elegivel(ClienteDoPedido, catalogo[k])
        /\ \A i \in 1..Len(catalogo) :
              Elegivel(ClienteDoPedido, catalogo[i]) =>
                  \/ catalogo[i].taxa_base_anual > catalogo[k].taxa_base_anual
                  \/ /\ catalogo[i].taxa_base_anual = catalogo[k].taxa_base_anual
                     /\ k <= i

\* two eligible products at the same rate: the first of the two is offered
C17_Witness ==
    /\ Aprovado
    /\ Len(catalogo) = 2
    /\ oferta.resultado.produto_ofertado = 1
    /\ catalogo[1].taxa_base_anual = catalogo[2].taxa_base_anual
    /\ Elegivel(ClienteDoPedido, catalogo[2])

\* C18: the approved limit is max(0, min(need * 1.05, limite_max_inicial,
\* limite_max_inicial * score / 1000)) rounded to centavos; it is never
\* negative and never above the product's limite_max_inicial.
C18_LimiteAprovado ==
    Aprovado =>
        LET c == ClienteDoPedido
            p == ProdutoOfertado
            a == c.necessidade_financiamento * 1050
            b == p.limite_max_inicial
            d == (p.limite_max_inicial \div 1000) * c.score_interno_risco
            menor == CHOOSE x \in {a, b, d} : \A y \in {a, b, d} : x <= y
        IN /\ oferta.resultado.limite_aprovado =
                  round2(IF menor < 0 THEN 0 ELSE menor)
           /\ oferta.resultado.limite_aprovado >= 0
           /\ 10 * oferta.resultado.limite_aprovado <= p.limite_max_inicial

\* a negative need is approved with limit zero, and a score above 1000 is
\* held at the product's limit
C18_Witness ==
    /\ Aprovado
    /\ ClienteDoPedido.score_interno_risco > 1000
    /\ \/ /\ ClienteDoPedido.necessidade_financiamento < 0
          /\ oferta.resultado.limite_aprovado = 0
       \/ /\ ClienteDoPedido.necessidade_financiamento > 0
          /\ 10 * oferta.resultado.limite_aprovado = ProdutoOfertado.limite_max_inicial

\* C19: the final rate is the base rate less 0.5 point exactly when the
\* relationship is of 10 years or more, less 0.25 point exactly when the
\* investments are R$ 200000 or more; the reasons start with the base
\* product and then name the bonuses given, fidelity before investment.
C19_BonusDeTaxa ==
    Aprovado =>
        LET c == ClienteDoPedido
            fidelidade == c.tempo_relacionamento_anos >= 10
            investimento == c.saldo_total_investimentos >= 200000 * Milesimos
            m == oferta.resultado.motivo_recomendacao
        IN /\ 10 * oferta.resultado.taxa_final_anual =
                  ProdutoOfertado.taxa_base_anual
                      - (IF fidelidade THEN 500 ELSE 0)
                      - (IF investimento THEN 250 ELSE 0)
           /\ Len(m) = 1 + (IF fidelidade THEN 1 ELSE 0)
                         + (IF investimento THEN 1 ELSE 0)
           /\ m[1].motivo = "Produto base"
           /\ 10 * m[1].pp = ProdutoOfertado.taxa_base_anual
           /\ fidelidade => m[2].motivo = "Bonus Fidelidade"
           /\ investimento => m[Len(m)].motivo = "Bonus Investimento"

\* exactly 10 years and exactly R$ 200000: both bonuses, 0.75 point
C19_Witness ==
    /\ Aprovado
    /\ ClienteDoPedido.tempo_relacionamento_anos = 10
    /\ ClienteDoPedido.saldo_total_investimentos = 200000 * Milesimos
    /\ 10 * oferta.resultado.taxa_final_anual = ProdutoOfertado.taxa_base_anual - 750
    /\ Len(oferta.resultado.motivo_recomendacao) = 3

\* C20: the term is max(24, min(floor(need / 10000) * 12, prazo_max_meses)).
C20_PrazoComPiso ==
    Aprovado =>
        LET t == (ClienteDoPedido.necessidade_financiamento \div 10000) * 12
            p == ProdutoOfertado.prazo_max_meses
            menor == IF t <= p THEN t ELSE p
        IN oferta.resultado.prazo_meses = (IF menor >= 24 THEN menor ELSE 24)

\* a negative need that is not a multiple of 10000 (int() gives 0, floor -1),
\* and a need whose term is above the floor
C20_Witness ==
    /\ Aprovado
    /\ \/ /\ ClienteDoPedido.necessidade_financiamento < 0
          /\ ClienteDoPedido.necessidade_financiamento % 10000 # 0
          /\ oferta.resultado.prazo_meses = 24
       \/ /\ oferta.resultado.prazo_meses = 36

----------------------------------------------------------------------------
(* SpecFluxo: requests one after the other, for a known or an unknown       *)
(* client, to                                                                *)
(* /proposta_completa/gerar (the decision followed by the text of the LLM)   *)
(* or to /decisao_ml/melhor_oferta.  What the flow does depends on the       *)
(* catalog only through the status of the offer: catalogs of at most one     *)
(* product.                                                                  *)

CatalogosFluxo == {c \in Catalogos : Len(c) <= 1}

Ids == IdsConhecidos \cup {IdDesconhecido}

\* lines 298-374.  texto: "llm" the text of the LLM, "fallback" the sentence
\* "Prezado(a) cliente, lamentamos informar ..." of lines 337-340, "" none.
gerar_proposta_completa_api(cl, db, produtos, id_cliente, necessidade, llm) ==
    IF ~cl THEN [http |-> 500, oferta |-> SemOferta, status |-> "", texto |-> "",
                 db |-> db]
    ELSE IF id_cliente \notin DOMAIN db
    THEN [http |-> 404, oferta |-> SemOferta, status |-> "", texto |-> "",
          db |-> db]
    ELSE LET cliente_base == model_copy(db[id_cliente], necessidade)
             oferta_decisao == motor_de_decisao(cliente_base, produtos)
             db2 == db_apos(db, id_cliente, necessidade)
         IN IF oferta_decisao.status = "NEGADO"
            THEN LET r == gerar_negativa_empatica(cl, TRUE, llm) IN
                 [http |-> 200, oferta |-> oferta_decisao, status |-> "NEGADO",
                  texto |-> IF r.excecao = "" THEN "llm" ELSE "fallback",
                  db |-> db2]
            ELSE LET r == gerar_proposta_valor_com_contexto(cl, TRUE, llm) IN
                 IF r.excecao = ""
                 THEN [http |-> 200, oferta |-> oferta_decisao,
                       status |-> "APROVADO", texto |-> "llm", db |-> db2]
                 ELSE [http |-> 500, oferta |-> oferta_decisao, status |-> "",
                       texto |-> "", db |-> db2]

InitFluxo ==
    /\ catalogo \in CatalogosFluxo
    /\ clientes_db \in [IdsConhecidos -> Clientes]
    /\ client \in BOOLEAN
    /\ \E id \in Ids, necessidade \in Necessidades, llm \in LlmResultados :
          oferta = Pedido(id, necessidade, llm)
    /\ variante = "v3"
    /\ msg = SemChamada
    /\ feat = SemChamada
    /\ arquivo = ArquivoAusente
    /\ resp = RespInicial
    /\ pc = PcInicial
    /\ loc = LocInicial

GerarPropostaCompleta ==
    /\ oferta.op = "pedido"
    /\ LET r == gerar_proposta_completa_api(client, clientes_db, catalogo,
                                            oferta.id_cliente,
                                            oferta.necessidade, oferta.llm)
       IN /\ oferta' = [oferta EXCEPT !.op = "completa", !.http = r.http,
                                      !.resultado = r.oferta,
                                      !.texto = r.texto]
          /\ clientes_db' = r.db
    /\ UNCHANGED <<variante, client, catalogo, msg>>
    /\ UNCHANGED varsHistorico

\* the next request arrives once the last one is answered
NovoPedido ==
    /\ oferta.op \in {"decidir", "completa"}
    /\ \E id \in Ids, necessidade \in Necessidades, llm \in LlmResultados :
          oferta' = Pedido(id, necessidade, llm)
    /\ UNCHANGED <<variante, client, catalogo, clientes_db, msg>>
    /\ UNCHANGED varsHistorico

\* a request is sent to either endpoint
NextFluxo ==
    \/ GerarPropostaCompleta
    \/ DecidirMelhorOferta
    \/ NovoPedido

SpecFluxo == InitFluxo /\ [][NextFluxo]_vars

\* C15: a request of the flow for a known client, made while the LLM is
\* absent (no client) or failing (the call raises), is answered with a
\* NEGADO or APROVADO result carrying the local fallback text.
C15_FluxoRecuperaLlm ==
    (/\ oferta.op = "completa"
     /\ oferta.id_cliente \in DOMAIN clientes_db
     /\ (~client \/ oferta.llm # "texto")) =>
        /\ oferta.http = 200
        /\ oferta.resultado.status \in {"NEGADO", "APROVADO"}
        /\ oferta.texto = "fallback"

\* C21: a request for an id_cliente that is not in CLIENTES_DB is answered
\* with HTTP 404 by both endpoints, with or without an LLM client, and no
\* offer is computed for it.
C21_DesconhecidoDa404 ==
    (/\ oferta.op \in {"decidir", "completa"}
     /\ oferta.id_cliente \notin DOMAIN clientes_db) =>
        /\ oferta.http = 404
        /\ oferta.resultado = SemOferta

----------------------------------------------------------------------------
(* SpecFeatures: criar_features_cliente with its numeric inputs.  A float    *)
(* quotient is kept as the pair of its numerator and its denominator.        *)

Valores ==
    [renda : {0, 3000}, idade : {-1, 0, 30}, valor_credito : {-1, 0, 10000},
     valor_bem : {0, 20000}, liquidez : LiquidezEntrada]

Frac(n, d) == [num |-> n, den |-> d]

\* the call raised nome before any feature was returned
FeaturesErro(nome) ==
    [erro |-> nome, liquidez_score |-> 0, relacao_garantia_credito |-> Frac(0, 1),
     renda_por_idade |-> Frac(0, 1), garantia_ponderada |-> Frac(0, 1)]

\* the denominators taken without the + 1
derivar_features_sem_vies(l, x) ==
    IF ~l.ok THEN FeaturesErro("KeyError")
    ELSE IF x.valor_credito = 0 \/ x.idade = 0
    THEN FeaturesErro("ZeroDivisionError")
    ELSE [erro |-> "", liquidez_score |-> l.liquidez_score,
          relacao_garantia_credito |-> Frac(x.valor_bem, x.valor_credito),
          renda_por_idade |-> Frac(x.renda, x.idade),
          garantia_ponderada |->
              Frac(x.valor_bem * l.liquidez_score, x.valor_credito)]

\* credito_service.py lines 68-72 (the same arithmetic in preprocess.py 4-7
\* and credito_service2.py 78-81).  l: the outcome of the liquidity lookup,
\* which comes first; x: the numeric inputs.  A division by zero raises
\* ZeroDivisionError.
derivar_features(l, x) ==
    IF ~l.ok THEN FeaturesErro("KeyError")
    ELSE IF x.valor_credito + 1 = 0 \/ x.idade + 1 = 0
    THEN FeaturesErro("ZeroDivisionError")
    ELSE [erro |-> "", liquidez_score |-> l.liquidez_score,
          relacao_garantia_credito |-> Frac(x.valor_bem, x.valor_credito + 1),
          renda_por_idade |-> Frac(x.renda, x.idade + 1),
          garantia_ponderada |->
              Frac(x.valor_bem * l.liquidez_score, x.valor_credito + 1)]

InitFeatures ==
    /\ variante \in Variantes
    /\ \E x \in Valores : feat = [op |-> "pedido", x |-> x, f |-> FeaturesErro("")]
    /\ client = FALSE
    /\ catalogo = <<>>
    /\ clientes_db = <<>>
    /\ oferta = SemChamada
    /\ msg = SemChamada
    /\ arquivo = ArquivoAusente
    /\ resp = RespInicial
    /\ pc = PcInicial
    /\ loc = LocInicial

CriarFeatures ==
    /\ feat.op = "pedido"
    /\ feat' = [feat EXCEPT
                  !.op = "features",
                  !.f = derivar_features(FeaturesDe(variante, feat.x.liquidez),
                                         feat.x)]
    /\ UNCHANGED <<variante, client, catalogo, clientes_db, oferta, msg>>
    /\ UNCHANGED <<arquivo, resp, pc, loc>>

NextFeatures == CriarFeatures

SpecFeatures == InitFeatures /\ [][NextFeatures]_vars

\* C22: for a valid liquidity, every variant gives liquidez_score 1 for
\* "baixa", 2 for "media", 3 for "alta", and garantia_ponderada is
\* relacao_garantia_credito times that score.
C22_LiquidezScore ==
    (feat.op = "features" /\ feat.x.liquidez \in LiquidezValidas
        /\ feat.f.erro # "ZeroDivisionError") =>
        /\ feat.f.erro = ""
        /\ feat.x.liquidez = "baixa" => feat.f.liquidez_score = 1
        /\ feat.x.liquidez = "media" => feat.f.liquidez_score = 2
        /\ feat.x.liquidez = "alta" => feat.f.liquidez_score = 3
        /\ feat.f.garantia_ponderada.num * feat.f.relacao_garantia_credito.den
              = feat.f.relacao_garantia_credito.num * feat.f.liquidez_score
                    * feat.f.garantia_ponderada.den

C22_Witness ==
    /\ feat.op = "features"
    /\ variante = "s2"
    /\ feat.x.liquidez = "alta"
    /\ feat.f.liquidez_score = 3
    /\ feat.f.relacao_garantia_credito.num > 0
    /\ feat.f.garantia_ponderada.num = 3 * feat.f.relacao_garantia_credito.num

\* C28: with valor_credito >= 0 and idade >= 0 no division by zero happens:
\* both denominators are at least 1 and both quotients are defined.
C28_SemDivisaoPorZero ==
    (feat.op = "features" /\ feat.x.valor_credito >= 0 /\ feat.x.idade >= 0) =>
        /\ feat.f.erro # "ZeroDivisionError"
        /\ feat.f.erro = "" =>
              /\ feat.f.relacao_garantia_credito.den = feat.x.valor_credito + 1
              /\ feat.f.renda_por_idade.den = feat.x.idade + 1
              /\ feat.f.relacao_garantia_credito.den >= 1
              /\ feat.f.renda_por_idade.den >= 1

C28_Witness ==
    /\ feat.op = "features"
    /\ feat.x.valor_credito = 0
    /\ feat.x.idade = 0
    /\ feat.f.erro = ""
    /\ feat.f.relacao_garantia_credito = Frac(feat.x.valor_bem, 1)

\* C27: no request to the offer engine changes CLIENTES_DB; the stored
\* necessidade_financiamento keeps its loaded value whatever the requests
\* asked for, and the offer is the one of the loaded record with the need of
\* the request.
C27_ClientesDbIntacto ==
    [][/\ clientes_db' = clientes_db
       /\ \A id \in DOMAIN clientes_db' :
             clientes_db'[id].necessidade_financiamento = 0
       /\ (oferta'.op = "decidir" /\ oferta'.http = 200) =>
             oferta'.resultado =
                 motor_de_decisao(
                     [clientes_db[oferta'.id_cliente] EXCEPT
                         !.necessidade_financiamento = oferta'.necessidade],
                     catalogo)]_vars

\* a request with a need other than the stored one was answered with an
\* offer, and the stored record still has the loaded need
C27_Witness ==
    /\ oferta.op = "completa"
    /\ oferta.http = 200
    /\ oferta.resultado.status = "APROVADO"
    /\ oferta.necessidade = 70000
    /\ clientes_db[oferta.id_cliente].necessidade_financiamento = 0

\* C29: in every record of the history the label 'aprovado' is 'Sim' exactly
\* when the stored prob_aprovacao (four decimals) is at least 0.5, also for a
\* probability just below 0.5 that is stored as 0.5000.
C29_RotuloSegueProbGravada ==
    \A i \in 1..Len(arquivo.linhas) :
        (arquivo.linhas[i].aprovado = "Sim") <=>
            (arquivo.linhas[i].prob_aprovacao >= round4(Limiar))

\* C30: the term of every approved offer is at least 24 months and at most
\* the prazo_max_meses of the offered product, also when that maximum is
\* below 24.
C30_PrazoDentroDoProduto ==
    Aprovado =>
        /\ 24 <= oferta.resultado.prazo_meses
        /\ oferta.resultado.prazo_meses <= ProdutoOfertado.prazo_max_meses

\* C26: in credito_service2.py the explanation of a request is fit on the
\* history whenever the log, written by this service's own appends, held at
\* least two records before the request, and on the single sample only when
\* it held fewer.
C26_ExplicacaoUsaHistorico ==
    (/\ variante = "s2"
     /\ resp.op = "prever"
     /\ resp.tipo = "ok"
     /\ resp.amostra # "") =>
        (resp.amostra = "historico" <=> Len(arquivo.linhas) - 1 >= 2)

----------------------------------------------------------------------------
(* SpecConcLimpar: the requests of SpecConc with limpar_historico served    *)
(* at any moment.  Neither salvar_historico nor limpar_historico takes a    *)
(* lock.                                                                    *)

\* POST /limpar_historico/ while appends are in flight
LimparConc ==
    /\ TemLimpar(variante)
    /\ \E falha_remove \in BOOLEAN :
          LET out == Limpar(variante, arquivo, falha_remove) IN
          /\ arquivo' = out.arq
          /\ resp' = [RespInicial EXCEPT !.op = "limpar", !.tipo = out.tipo]
    /\ UNCHANGED <<variante, pc, loc>>
    /\ UNCHANGED varsOferta

NextConcLimpar ==
    \/ \E t \in Threads : IniciarPedido(t)
    \/ \E t \in Threads : LerAntigo(t)
    \/ \E t \in Threads : EscreverNovo(t)
    \/ LimparConc

SpecConcLimpar == Init /\ [][NextConcLimpar]_vars

\* C23: no clear takes effect between an append's read of the log and its
\* write-back: when an append that read old records writes them back, the
\* file it read is still there, so old records never come back after a
\* completed clear.
C23_LimparExcluiAppend ==
    [][\A t \in Threads :
          (/\ pc[t] = "escrever"
           /\ pc'[t] = "fim"
           /\ Len(loc[t].lido) > 0) => existe(arquivo)]_vars

----------------------------------------------------------------------------
(* SpecPassos: one prever_credito request taken statement by statement,     *)
(* with the history endpoint served at any moment.  The LLM call of the     *)
(* message step is a blocking network call; DataFrame.to_csv opens the      *)
(* file for writing, which empties it, and the rows reach the file when the *)
(* buffer is flushed and, at the latest, when the file is closed.           *)

\* the message step placed inside the append, after the read of the log
Roteiro_mensagem_tardia(v) ==
    CASE v = "v3" -> <<"explicacao", "ler", "mensagem", "escrever">>
      [] v = "s2" -> <<"explicacao", "ler", "mensagem", "fallback", "escrever">>
      [] v = "s1" -> <<"explicacao", "ler", "escrever">>

\* The order of the steps of prever_credito after the scoring:
\* credito_service.py message 187-190, explanation 194-203, read 219-222,
\* write 224; credito_service2.py message 134-165, explanation 168-196,
\* fallback message 198-209, salvar_historico 223; Old/credito_service.py has
\* no message.
Roteiro(v) ==
    CASE v = "v3" -> <<"mensagem", "explicacao", "ler", "escrever">>
      [] v = "s2" -> <<"mensagem", "explicacao", "fallback", "ler", "escrever">>
      [] v = "s1" -> <<"explicacao", "ler", "escrever">>

Primeiro(v) == Roteiro(v)[1]

Proximo(v, passo) ==
    LET r == Roteiro(v)
        i == CHOOSE j \in 1..Len(r) : r[j] = passo
    IN IF i = Len(r) THEN "fim" ELSE r[i + 1]

\* a record appended by an earlier request
RegistroAntigo ==
    novo_registro([liquidez |-> "alta", prob |-> 50000, falha_modelo |-> FALSE,
                   falha_explicacao |-> FALSE], TRUE)

\* the log before the request
LogsIniciais ==
    {ArquivoAusente, to_csv(<<RegistroAntigo>>),
     to_csv(<<RegistroAntigo, RegistroAntigo>>)}

LocPassos ==
    [t \in Threads |->
        [d |-> SemDecisao("", ""), lido |-> <<>>, leu |-> FALSE, llm |-> "",
         importado |-> TRUE, mensagem |-> NaoChamada]]

InitPassos ==
    /\ variante \in Variantes
    /\ client \in BOOLEAN
    /\ arquivo \in LogsIniciais
    /\ resp = RespInicial
    /\ pc = PcInicial
    /\ loc = LocPassos
    /\ catalogo = <<>>
    /\ clientes_db = <<>>
    /\ oferta = SemChamada
    /\ msg = SemChamada
    /\ feat = SemChamada

\* what the message code of the variant computes for the request of t
MensagemDe(t) ==
    IF variante = "v3"
    THEN compor_mensagem(client, loc[t].llm, loc[t].d.prob_modelo)
    ELSE compor_mensagem_s2(client, loc[t].importado, loc[t].llm,
                            loc[t].d.prob_modelo)

\* mensagem_cliente at the end of the message step: in credito_service2.py
\* it stays None when the generator raised
TextoPrimario(t) ==
    LET c == MensagemDe(t) IN
    IF variante = "v3" THEN c.mensagem
    ELSE IF c.interna.excecao = "" THEN c.interna ELSE NaoChamada

\* whether the message step sends a request to the LLM
ChamaLlm(t) ==
    LET c == MensagemDe(t) IN
    IF variante = "v3" THEN c.mensagem.chamou_llm ELSE c.interna.chamou_llm

\* features, scoring: thread-local
ReceberPedido(t) ==
    /\ pc[t] = "idle"
    /\ \E req \in PedidosConc, llm \in LlmResultados, importado \in BOOLEAN :
          /\ variante = "v3" => importado
          /\ LET d == DecisaoDe(variante, req) IN
             /\ loc' = [loc EXCEPT ![t].d = d, ![t].llm = llm,
                                   ![t].importado = importado]
             /\ pc' = [pc EXCEPT ![t] = IF d.tipo = "ok" THEN Primeiro(variante)
                                        ELSE "fim"]
    /\ UNCHANGED <<variante, arquivo, resp>>
    /\ UNCHANGED varsOferta

\* the message step up to the LLM request, or whole when no request is sent
ComporPasso(t) ==
    /\ pc[t] = "mensagem"
    /\ IF ChamaLlm(t)
       THEN /\ pc' = [pc EXCEPT ![t] = "aguardando"]
            /\ UNCHANGED loc
       ELSE /\ pc' = [pc EXCEPT ![t] = Proximo(variante, "mensagem")]
            /\ loc' = [loc EXCEPT ![t].mensagem = TextoPrimario(t)]
    /\ UNCHANGED <<variante, arquivo, resp>>
    /\ UNCHANGED varsOferta

\* the LLM answers or fails; the message step ends
ReceberLlm(t) ==
    /\ pc[t] = "aguardando"
    /\ pc' = [pc EXCEPT ![t] = Proximo(variante, "mensagem")]
    /\ loc' = [loc EXCEPT ![t].mensagem = TextoPrimario(t)]
    /\ UNCHANGED <<variante, arquivo, resp>>
    /\ UNCHANGED varsOferta

\* PermutationImportance and eli5: no LLM, no write
Explicar(t) ==
    /\ pc[t] = "explicacao"
    /\ pc' = [pc EXCEPT ![t] = Proximo(variante, "explicacao")]
    /\ UNCHANGED <<variante, arquivo, resp, loc>>
    /\ UNCHANGED varsOferta

\* credito_service2.py 198-209: if mensagem_cliente is None
FallbackMensagem(t) ==
    /\ pc[t] = "fallback"
    /\ pc' = [pc EXCEPT ![t] = Proximo(variante, "fallback")]
    /\ loc' = [loc EXCEPT ![t].mensagem =
                  IF @.origem = "" THEN MensagemDe(t).mensagem ELSE @]
    /\ UNCHANGED <<variante, arquivo, resp>>
    /\ UNCHANGED varsOferta

\* os.path.exists + pd.read_csv of the append
LerPasso(t) ==
    /\ pc[t] = "ler"
    /\ LET a == LerAntigoDe(variante, arquivo) IN
       IF a.ok
       THEN /\ loc' = [loc EXCEPT ![t].lido = a.linhas, ![t].leu = TRUE]
            /\ pc' = [pc EXCEPT ![t] = Proximo(variante, "ler")]
       ELSE /\ loc' = [loc EXCEPT ![t].d =
                          SemDecisao(IF variante = "s1" THEN "excecao" ELSE "erro",
                                     "historico")]
            /\ pc' = [pc EXCEPT ![t] = "fim"]
    /\ UNCHANGED <<variante, arquivo, resp>>
    /\ UNCHANGED varsOferta

\* the file just opened with mode 'w': zero bytes, which read_csv rejects
truncar(arq) == ArquivoCorrompido

\* to_csv opens the file
AbrirArquivo(t) ==
    /\ pc[t] = "escrever"
    /\ arquivo' = truncar(arquivo)
    /\ pc' = [pc EXCEPT ![t] = "gravando"]
    /\ UNCHANGED <<variante, resp, loc>>
    /\ UNCHANGED varsOferta

\* the buffer is flushed before the last row: the header and the first k rows
DescarregarParte(t) ==
    /\ pc[t] = "gravando"
    /\ \E k \in 0..Len(loc[t].lido) :
          /\ arquivo.estado = "corrompido" \/ Len(arquivo.linhas) < k
          /\ arquivo' = to_csv(SubSeq(loc[t].lido \o <<loc[t].d.registro>>, 1, k))
    /\ UNCHANGED <<variante, resp, pc, loc>>
    /\ UNCHANGED varsOferta

\* to_csv closes the file: everything is written; then the response
FecharArquivo(t) ==
    /\ pc[t] = "gravando"
    /\ arquivo' = concat_e_grava(loc[t].lido, loc[t].d.registro)
    /\ loc' = [loc EXCEPT ![t].d = Concluida(@)]
    /\ pc' = [pc EXCEPT ![t] = "fim"]
    /\ UNCHANGED <<variante, resp>>
    /\ UNCHANGED varsOferta

NextPassos ==
    \/ ReceberPedido("t1")
    \/ ComporPasso("t1")
    \/ ReceberLlm("t1")
    \/ Explicar("t1")
    \/ FallbackMensagem("t1")
    \/ LerPasso("t1")
    \/ AbrirArquivo("t1")
    \/ DescarregarParte("t1")
    \/ FecharArquivo("t1")
    \/ ObterHistorico

SpecPassos == InitPassos /\ [][NextPassos]_vars

\* the log the append of t1 found, once it has read it
LogLido ==
    IF loc["t1"].lido = <<>> THEN ArquivoAusente ELSE to_csv(loc["t1"].lido)

\* C24: a read of the history of credito_service.py concurrent with one
\* append on a log s returns s or s plus the new record: never an error,
\* an empty or a shortened list caused by the write in progress.
C24_LeituraVeLogInteiro ==
    (/\ variante = "v3"
     /\ resp.op = "historico"
     /\ loc["t1"].leu) =>
        /\ resp.tipo = "lista"
        /\ resp.dados \in
              {obter_historico(LogLido).dados,
               obter_historico(concat_e_grava(loc["t1"].lido,
                                              loc["t1"].d.registro)).dados}

\* C25: from the append's read of the log until its write-back ends, no LLM
\* call of the request is in flight or still to be made, and the message is
\* already composed.
C25_LlmForaDoAppend ==
    \A t \in Threads :
        (/\ variante \in VariantesMsg
         /\ loc[t].leu
         /\ pc[t] # "fim") =>
            /\ pc[t] \notin {"mensagem", "aguardando", "fallback"}
            /\ loc[t].mensagem.origem # ""

\* the file is open for the write-back of a request whose message came from
\* an LLM call
C25_Witness ==
    /\ pc["t1"] = "gravando"
    /\ loc["t1"].leu
    /\ loc["t1"].mensagem.chamou_llm
    /\ loc["t1"].mensagem.origem = "llm"

====
